---- MODULE Spec2Model ----
(***************************************************************************)
(* Pump_hydraulic_calc.py: a Streamlit script.  Every change of a sidebar  *)
(* widget runs the whole script again from the top: the sidebar values are *)
(* converted to SI, the hydraulic quantities are calculated, the results   *)
(* are written to the page, and the pump curve is parsed and plotted.      *)
(*                                                                         *)
(* Python floats are modelled as fixed-point integers, one scale per       *)
(* quantity (noted where the quantity is computed); divisions truncate to  *)
(* that resolution.  IEEE infinities and NaN, which numpy's float64        *)
(* produces where a Python float raises, are modelled as tagged values.    *)
(***************************************************************************)
EXTENDS Integers, Sequences, FiniteSets, TLC

VARIABLES
  sidebar,   \* the widgets' values (Streamlit keeps them between runs)
  env,       \* the script's module-level names of the current run
  page,      \* what the current run has written to the page
  error,     \* the uncaught exception that ended the run, or NoError
  pc,        \* the section of the script the run is about to execute
  runs,      \* reruns so far in this session
  mem,       \* history: inputs and outcome of one earlier, finished run
  conv,      \* the last direct call of a unit conversion, with its result
  props,     \* the last direct call of get_fluid_properties, with its result
  propsPrev  \* the call of get_fluid_properties before that

vars == <<sidebar, env, page, error, pc, runs, mem, conv, props, propsPrev>>

(***************************************************************************)
(* Numbers.  A value is [k, v]: k = "fin" with the fixed-point integer v,  *)
(* k = "inf" with the sign v, k = "nan", or k = "unbound" for a name the   *)
(* run has not assigned yet.  A raised exception is [k |-> its name,       *)
(* v |-> the source line that raised it].                                  *)
(***************************************************************************)
Fin(n) == [k |-> "fin", v |-> n]

Inf(s) == [k |-> "inf", v |-> s]

NaN == [k |-> "nan", v |-> 0]

Unbound == [k |-> "unbound", v |-> 0]

Raise(name, line) == [k |-> name, v |-> line]

NoError == [k |-> "none", v |-> 0]

IsRaise(x) == x.k \in {"ZeroDivisionError", "ValueError"}

Sgn(n) == IF n > 0 THEN 1 ELSE IF n < 0 THEN -1 ELSE 0

\* a * b / c without the intermediate product leaving 32 bits (c > 0)
MulDiv(a, b, c) == (a \div c) * b + ((a % c) * b) \div c

\* n / d rounded to the nearest integer (d > 0): a format's last digit
RoundDiv(n, d) == (2 * n + d) \div (2 * d)

\* IEEE multiplication
NMul(a, b) ==
  IF a.k = "nan" \/ b.k = "nan" THEN NaN
  ELSE IF a.k = "inf" \/ b.k = "inf"
       THEN IF a.v = 0 \/ b.v = 0 THEN NaN ELSE Inf(Sgn(a.v) * Sgn(b.v))
       ELSE Fin(a.v * b.v)

\* IEEE addition
NAdd(a, b) ==
  IF a.k = "nan" \/ b.k = "nan" THEN NaN
  ELSE IF a.k = "inf" /\ b.k = "inf"
       THEN IF a.v = b.v THEN a ELSE NaN
       ELSE IF a.k = "inf" THEN a
       ELSE IF b.k = "inf" THEN b
       ELSE Fin(a.v + b.v)

NNeg(a) == IF a.k = "nan" THEN NaN ELSE [a EXCEPT !.v = -a.v]

\* a finite value rescaled by num/den (den > 0); inf and nan pass through
NScale(a, num, den) ==
  IF a.k = "fin" THEN Fin((a.v * num) \div den)
  ELSE IF a.k = "inf" THEN Inf(a.v * Sgn(num))
  ELSE a

(***************************************************************************)
(* The library functions the script calls: np.exp, math.log10 and the      *)
(* float power operator, in fixed point.                                   *)
(***************************************************************************)
RECURSIVE ExpSeries(_, _, _, _)
\* the Taylor series of exp: xs is x * 1000, term and acc are scaled by 10000
ExpSeries(xs, term, n, acc) ==
  IF term = 0 \/ n > 40 THEN acc
  ELSE LET next == (term * xs) \div (1000 * n)
       IN  ExpSeries(xs, IF next = -1 THEN 0 ELSE next, n + 1, acc + term)

\* exp(xs / 1000) * 10000, for -2000 <= xs <= 5000
ExpFix(xs) == ExpSeries(xs, 10000, 1, 0)

RECURSIVE Pow2(_)
Pow2(n) == IF n <= 0 THEN 1 ELSE 2 * Pow2(n - 1)

RECURSIVE IntLog2(_)
\* floor(log2 x), x >= 1
IntLog2(x) == IF x < 2 THEN 0 ELSE 1 + IntLog2(x \div 2)

RECURSIVE Log2Frac(_, _, _)
\* the fraction bits of log2 by repeated squaring; y in [16384, 32768)
Log2Frac(y, i, acc) ==
  IF i > 14 THEN acc
  ELSE LET y2 == (y * y) \div 16384
       IN  IF y2 >= 32768
           THEN Log2Frac(y2 \div 2, i + 1, acc + 16384 \div Pow2(i))
           ELSE Log2Frac(y2, i + 1, acc)

\* log2(x) * 16384, x >= 1
Log2Fix(x) ==
  LET n == IntLog2(x)
      y == IF n <= 14 THEN x * Pow2(14 - n) ELSE x \div Pow2(n - 14)
  IN  n * 16384 + Log2Frac(y, 1, 0)

\* log10(x) * 1000, x >= 1   (log10 2 = 1233/4096)
Log10Fix(x) == (((Log2Fix(x) * 1233) \div 4096) * 1000) \div 16384

\* x ** 0.9, x >= 1
Pow09(x) ==
  LET e  == (Log2Fix(x) * 9) \div 10
      ip == e \div 16384
      fp == e % 16384
  IN  MulDiv(Pow2(ip), ExpFix((fp * 693) \div 16384), 10000)

(***************************************************************************)
(* UNIT CONVERSIONS.  Each is linear (temperature apart), so the result    *)
(* has the scale of the value passed in.                                   *)
(***************************************************************************)
flow_to_m3s(value, unit) ==
  IF unit = "m3/hr" THEN value \div 3600
  ELSE IF unit = "m3/s" THEN value
  ELSE IF unit = "GPM" THEN ((value \div 10000) * 6309) \div 10000
  ELSE value

length_to_m(value, unit) ==
  IF unit = "m" THEN value
  ELSE IF unit = "ft" THEN (value * 3048) \div 10000
  ELSE IF unit = "inch" THEN (value * 254) \div 10000
  ELSE value

pressure_to_Pa(value, unit) ==
  IF unit = "Pa" THEN value
  ELSE IF unit = "kPa" THEN value * 1000
  ELSE IF unit = "bar" THEN value * 100000
  ELSE IF unit = "psig" THEN (value * 689476) \div 100
  ELSE value

\* value in whole degrees
temperature_to_C(value, unit) ==
  IF unit = "°C" THEN value
  ELSE IF unit = "°F" THEN ((value - 32) * 5) \div 9
  ELSE value

\* value is a number (the power may be nan)
power_from_W(value, unit) ==
  IF unit = "kW" THEN NScale(value, 1, 1000)
  ELSE IF unit = "HP" THEN NScale(value, 10, 7457)
  ELSE value

(***************************************************************************)
(* FLUID PROPERTIES.  temperature_C in whole degrees; density in 0.1       *)
(* kg/m3, viscosity in 1e-6 Pa.s, vapor pressure in Pa.  np.exp makes      *)
(* Water's viscosity a numpy.float64; the others' are Python floats.       *)
(***************************************************************************)
\* the density model with its slope's sign lost
WaterDensityRising(temperature_C) == 10000 + 3 * (temperature_C - 20)

\* line 64
WaterDensity(temperature_C) == 10000 - 3 * (temperature_C - 20)

get_fluid_properties(fluid, temperature_C) ==
  LET vapor_pressure == (233 * ExpFix(60 * (temperature_C - 20))) \div 1000
  IN  IF fluid = "Water"
      THEN [density |-> WaterDensity(temperature_C),
            viscosity |-> ExpFix(-20 * (temperature_C - 20)) \div 10,
            viscosity_type |-> "numpy.float64",
            vapor_pressure |-> vapor_pressure]
      ELSE IF fluid = "Light Oil"
      THEN [density |-> 8500, viscosity |-> 20000,
            viscosity_type |-> "float", vapor_pressure |-> vapor_pressure]
      ELSE IF fluid = "Seawater"
      THEN [density |-> 10250, viscosity |-> 1200,
            viscosity_type |-> "float", vapor_pressure |-> vapor_pressure]
      ELSE [density |-> 10000, viscosity |-> 1000,
            viscosity_type |-> "float", vapor_pressure |-> vapor_pressure]

\* 9.81 m/s2, in 0.01 m/s2
g == 981

(***************************************************************************)
(* Text.  A text field's value is the sequence of its characters.          *)
(***************************************************************************)
Digits == {"0", "1", "2", "3", "4", "5", "6", "7", "8", "9"}

DigitVal(c) ==
  CASE c = "0" -> 0 [] c = "1" -> 1 [] c = "2" -> 2 [] c = "3" -> 3
    [] c = "4" -> 4 [] c = "5" -> 5 [] c = "6" -> 6 [] c = "7" -> 7
    [] c = "8" -> 8 [] c = "9" -> 9

RECURSIVE Split(_, _)
\* str.split(sep): the pieces between the separators, empty ones included
Split(s, sep) ==
  IF \A i \in 1..Len(s) : s[i] # sep THEN <<s>>
  ELSE LET i == CHOOSE j \in 1..Len(s) :
                  s[j] = sep /\ \A m \in 1..(j - 1) : s[m] # sep
       IN  <<SubSeq(s, 1, i - 1)>> \o Split(SubSeq(s, i + 1, Len(s)), sep)

RECURSIVE Strip(_)
\* surrounding blanks removed, as float() does before it reads the number
Strip(s) ==
  IF s # <<>> /\ s[1] = " " THEN Strip(Tail(s))
  ELSE IF s # <<>> /\ s[Len(s)] = " " THEN Strip(SubSeq(s, 1, Len(s) - 1))
  ELSE s

RECURSIVE DigitsVal(_, _)
DigitsVal(s, acc) ==
  IF s = <<>> THEN acc ELSE DigitsVal(Tail(s), 10 * acc + DigitVal(s[1]))

\* float(x) for a decimal literal: an optional sign, digits, an optional
\* point and more digits (at least one digit in all).  The value is in
\* 0.01, digits past the second decimal dropped.  Anything else is a
\* ValueError.
ParseFloat(x) ==
  LET t    == Strip(x)
      neg  == t # <<>> /\ t[1] = "-"
      u    == IF t # <<>> /\ t[1] \in {"-", "+"} THEN Tail(t) ELSE t
      dots == {i \in 1..Len(u) : u[i] = "."}
      ip   == IF dots = {} THEN u
              ELSE SubSeq(u, 1, (CHOOSE i \in dots : TRUE) - 1)
      fp   == IF dots = {} THEN <<>>
              ELSE SubSeq(u, (CHOOSE i \in dots : TRUE) + 1, Len(u))
      fp2  == SubSeq(fp \o <<"0", "0">>, 1, 2)
      wellFormed ==
        /\ Cardinality(dots) <= 1
        /\ \A i \in 1..Len(ip) : ip[i] \in Digits
        /\ \A i \in 1..Len(fp) : fp[i] \in Digits
        /\ Len(ip) + Len(fp) >= 1
  IN  IF ~wellFormed THEN Raise("ValueError", 177)
      ELSE LET m == 100 * DigitsVal(ip, 0) + DigitsVal(fp2, 0)
           IN  Fin(IF neg THEN -m ELSE m)

\* np.array([float(x) for x in text.split(",")]): the numbers, or the
\* first exception raised
ParseCurve(text) ==
  LET parsed == [i \in 1..Len(Split(text, ",")) |->
                   ParseFloat(Split(text, ",")[i])]
      bad    == {i \in 1..Len(parsed) : IsRaise(parsed[i])}
  IN  IF bad # {}
      THEN [ok |-> FALSE, values |-> <<>>]
      ELSE [ok |-> TRUE, values |-> [i \in 1..Len(parsed) |-> parsed[i].v]]

(***************************************************************************)
(* SIDEBAR INPUTS.  Scales: temperature in degrees, flow in 1e-6 of its    *)
(* unit, diameter / length / heads in 0.001, roughness in 1e-6 m, K in     *)
(* 0.1, efficiency in 0.01, pressure in its unit.                          *)
(***************************************************************************)
DefaultCurveQ == <<"1", "0", ",", "3", "0", ",", "5", "0", ",", "7", "0">>

DefaultCurveH == <<"4", "0", ",", "3", "5", ",", "3", "0", ",", "2", "0">>

\* the widgets' value= arguments and the select boxes' first options
DefaultSidebar ==
  [fluid |-> "Water",
   temp_unit |-> "°C", temperature_input |-> 25,
   flow_unit |-> "m3/hr", flow_input |-> 50000000,
   diam_unit |-> "m", diam_input |-> 100,
   len_unit |-> "m", length_input |-> 200000,
   elev_input |-> 10000,
   roughness |-> 45, minor_k |-> 20, efficiency |-> 75,
   pressure_unit |-> "Pa", suction_pressure_input |-> 101325,
   suction_static_input |-> 2000,
   power_unit |-> "kW",
   curve_Q |-> DefaultCurveQ, curve_H |-> DefaultCurveH]

Names ==
  {"temperature", "Q", "diameter", "length", "elevation", "suction_pressure",
   "suction_static", "density", "viscosity", "vapor_pressure", "area",
   "velocity", "Re", "f", "major_loss", "minor_loss", "TDH",
   "hydraulic_power_W", "shaft_power_W", "NPSHa"}

\* a run starts with none of the script's names bound
FreshEnv == [n \in Names |-> Unbound]

NoResults ==
  [velocity |-> Unbound, Re |-> Unbound, f |-> Unbound,
   major_loss |-> Unbound, minor_loss |-> Unbound, TDH |-> Unbound,
   hydraulic_power |-> Unbound, shaft_power |-> Unbound, NPSHa |-> Unbound]

NoPlot == [shown |-> FALSE, Q |-> <<>>, H |-> <<>>]

\* the page with the title alone
TitlePage ==
  [title |-> TRUE, results |-> NoResults, plot |-> NoPlot, warning |-> FALSE]

\* what a run leaves of the page before it: nothing, the old page persisting
\* into the new run
StalePage == page

\* lines 6-7: a run redraws the page from its title down
FreshPage == TitlePage

NoCall == [fn |-> "none", value |-> 0, tag |-> "", result |-> Unbound]

NoProps == [fluid |-> "", temperature_C |-> 0, density |-> 0,
            viscosity |-> 0, vapor_pressure |-> 0]

NoMem == [run |-> -1, sidebar |-> DefaultSidebar, env |-> FreshEnv,
          page |-> TitlePage, error |-> NoError]

Init ==
  /\ sidebar = DefaultSidebar
  /\ env = FreshEnv
  /\ page = TitlePage
  /\ error = NoError
  /\ pc = "inputs"
  /\ runs = 0
  /\ mem = NoMem
  /\ conv = NoCall
  /\ props = NoProps
  /\ propsPrev = NoProps

(***************************************************************************)
(* The script, section by section.                                         *)
(***************************************************************************)
\* lines 83-123: the widgets are read and their values converted
ReadInputs ==
  /\ pc = "inputs"
  /\ env' = [env EXCEPT
       !.temperature = Fin(temperature_to_C(sidebar.temperature_input,
                                            sidebar.temp_unit)),
       !.Q = Fin(flow_to_m3s(sidebar.flow_input, sidebar.flow_unit)),
       !.diameter = Fin(length_to_m(sidebar.diam_input, sidebar.diam_unit)),
       !.length = Fin(length_to_m(sidebar.length_input, sidebar.len_unit)),
       !.elevation = Fin(length_to_m(sidebar.elev_input, sidebar.len_unit)),
       !.suction_pressure = Fin(pressure_to_Pa(sidebar.suction_pressure_input,
                                               sidebar.pressure_unit)),
       !.suction_static = Fin(length_to_m(sidebar.suction_static_input,
                                          sidebar.len_unit))]
  /\ pc' = "calc"
  /\ UNCHANGED <<sidebar, page, error, runs, mem, conv, props, propsPrev>>

\* an assignment: the first exception raised ends the section
Bind(fr, name, val) ==
  IF fr.exc.k # "none" THEN fr
  ELSE IF IsRaise(val) THEN [fr EXCEPT !.exc = val]
  ELSE [fr EXCEPT !.ns[name] = val]

\* line 136: Swamee-Jain; roughness/(3.7 d) and 5.74/Re^0.9 in 1e-7, f in 1e-5
SwameeJain(Re, roughness, diameter) ==
  IF diameter = 0 THEN Raise("ZeroDivisionError", 136)
  ELSE LET arg == (roughness * 100000) \div (37 * diameter)
                  + 57400000 \div Pow09(Re)
       IN  IF arg <= 0 THEN Raise("ValueError", 136)
           ELSE LET l  == Log10Fix(arg) - 7000
                    l2 == (l * l) \div 100
                IN  IF l = 0 THEN Raise("ZeroDivisionError", 136)
                    ELSE Fin(250000000 \div (IF l2 = 0 THEN 1 ELSE l2))

\* line 138: 64 / Re, f in 1e-5.  A numpy.float64 zero divides to an
\* infinity with the sign of the zero (that of the diameter, the flow being
\* +0.0); a Python float zero raises.
Laminar(Re, viscosity_type, diameter) ==
  IF Re = 0
  THEN IF viscosity_type = "numpy.float64"
       THEN Inf(IF diameter < 0 THEN -1 ELSE 1)
       ELSE Raise("ZeroDivisionError", 138)
  ELSE Fin(6400000 \div Re)

\* the regime test with Re = 4000 on the turbulent side
FrictionFactorInclusive(Re, roughness, diameter, viscosity_type) ==
  IF Re >= 4000 THEN SwameeJain(Re, roughness, diameter)
  ELSE Laminar(Re, viscosity_type, diameter)

\* lines 135-138
FrictionFactor(Re, roughness, diameter, viscosity_type) ==
  IF Re > 4000 THEN SwameeJain(Re, roughness, diameter)
  ELSE Laminar(Re, viscosity_type, diameter)

\* line 131: area in mm2 (pi = 355/113)
Area(diameter) == Fin((355 * diameter * diameter) \div 452)

\* line 132: velocity in mm/s; both operands are Python floats
Velocity(Q, area) ==
  IF area = 0 THEN Raise("ZeroDivisionError", 132)
  ELSE Fin((Q * 1000) \div area)

\* line 133
Reynolds(density, velocity, diameter, viscosity) ==
  IF viscosity = 0 THEN Raise("ZeroDivisionError", 133)
  ELSE Fin((((density * velocity) \div 10) * diameter) \div viscosity)

\* velocity**2/(2*g), in mm
VelocityHead(velocity) == (velocity * velocity) \div (20 * g)

\* line 140: in mm; f may be an infinity
MajorLoss(f, length, diameter, velocity) ==
  IF diameter = 0 THEN Raise("ZeroDivisionError", 140)
  ELSE NScale(NMul(NMul(f, Fin(length \div diameter)),
                   Fin(VelocityHead(velocity))), 1, 100000)

\* line 141: in mm
MinorLoss(minor_k, velocity) == Fin((minor_k * VelocityHead(velocity)) \div 10)

\* line 142
TotalDynamicHead(major_loss, minor_loss, elevation) ==
  NAdd(NAdd(major_loss, minor_loss), elevation)

\* density*g, in N/m3
SpecificWeight(density) == (density * g) \div 1000

\* line 144: in mW
HydraulicPower(density, Q, TDH) ==
  IF TDH.k = "fin"
  THEN Fin(MulDiv((Q * TDH.v) \div 1000, SpecificWeight(density), 1000))
  ELSE NMul(NMul(Fin(SpecificWeight(density)), Fin(Q)), TDH)

\* line 145
ShaftPower(hydraulic_power_W, efficiency) ==
  IF efficiency = 0 THEN Raise("ZeroDivisionError", 145)
  ELSE NScale(hydraulic_power_W, 100, efficiency)

\* lines 147-149: in mm
NetPositiveSuctionHead(suction_pressure, suction_static, density, vapor_pressure, major_loss) ==
  IF SpecificWeight(density) = 0 THEN Raise("ZeroDivisionError", 147)
  ELSE NAdd(Fin((suction_pressure * 1000) \div SpecificWeight(density)
                + suction_static
                - (vapor_pressure * 1000) \div SpecificWeight(density)),
            NNeg(major_loss))

\* lines 129-149, statement by statement
Calculations ==
  /\ pc = "calc"
  /\ \E fp \in {get_fluid_properties(sidebar.fluid, env.temperature.v)} :
     \E f1 \in {Bind(Bind(Bind([ns |-> env, exc |-> NoError],
                               "density", Fin(fp.density)),
                          "viscosity", Fin(fp.viscosity)),
                     "vapor_pressure", Fin(fp.vapor_pressure))} :
     \E f2 \in {Bind(f1, "area", Area(env.diameter.v))} :
     \E f3 \in {Bind(f2, "velocity", Velocity(env.Q.v, f2.ns.area.v))} :
     \E f4 \in {Bind(f3, "Re", Reynolds(fp.density, f3.ns.velocity.v,
                                        env.diameter.v, fp.viscosity))} :
     \E f5 \in {Bind(f4, "f", FrictionFactor(f4.ns.Re.v, sidebar.roughness,
                                             env.diameter.v,
                                             fp.viscosity_type))} :
     \E f6 \in {Bind(f5, "major_loss",
                     MajorLoss(f5.ns.f, env.length.v, env.diameter.v,
                               f5.ns.velocity.v))} :
     \E f7 \in {Bind(f6, "minor_loss",
                     MinorLoss(sidebar.minor_k, f6.ns.velocity.v))} :
     \E f8 \in {Bind(f7, "TDH",
                     TotalDynamicHead(f7.ns.major_loss, f7.ns.minor_loss,
                                      env.elevation))} :
     \E f9 \in {Bind(f8, "hydraulic_power_W",
                     HydraulicPower(fp.density, env.Q.v, f8.ns.TDH))} :
     \E f10 \in {Bind(f9, "shaft_power_W",
                      ShaftPower(f9.ns.hydraulic_power_W,
                                 sidebar.efficiency))} :
     \E f11 \in {Bind(f10, "NPSHa",
                      NetPositiveSuctionHead(
                        env.suction_pressure.v, env.suction_static.v,
                        fp.density, fp.vapor_pressure, f10.ns.major_loss))} :
       /\ env' = f11.ns
       /\ error' = f11.exc
       /\ pc' = IF f11.exc.k = "none" THEN "display" ELSE "crashed"
  /\ UNCHANGED <<sidebar, page, runs, mem, conv, props, propsPrev>>

\* a format with a fixed number of decimals: den is the value's scale over
\* the format's; inf and nan print as such
Format(x, den) == IF x.k = "fin" THEN Fin(RoundDiv(x.v, den)) ELSE x

\* lines 155-170
Displayed(ns, sb) ==
  [velocity |-> Format(ns.velocity, 10),
   Re |-> Format(ns.Re, 1),
   f |-> Format(ns.f, 10),
   major_loss |-> Format(ns.major_loss, 10),
   minor_loss |-> Format(ns.minor_loss, 10),
   TDH |-> Format(ns.TDH, 10),
   hydraulic_power |-> Format(power_from_W(ns.hydraulic_power_W, sb.power_unit), 10),
   shaft_power |-> Format(power_from_W(ns.shaft_power_W, sb.power_unit), 10),
   NPSHa |-> Format(ns.NPSHa, 10)]

Display ==
  /\ pc = "display"
  /\ page' = [page EXCEPT !.results = Displayed(env, sidebar)]
  /\ pc' = "curve"
  /\ UNCHANGED <<sidebar, env, error, runs, mem, conv, props, propsPrev>>

\* the plot drawn over the common prefix when the lengths differ
CurvePlotTruncating(curve_Q, curve_H) ==
  LET Q_curve == ParseCurve(curve_Q)
      H_curve == ParseCurve(curve_H)
      n == IF Len(Q_curve.values) < Len(H_curve.values)
           THEN Len(Q_curve.values) ELSE Len(H_curve.values)
  IN  IF ~Q_curve.ok \/ ~H_curve.ok THEN NoPlot
      ELSE [shown |-> TRUE, Q |-> SubSeq(Q_curve.values, 1, n),
            H |-> SubSeq(H_curve.values, 1, n)]

\* lines 176-188: the plot the try block draws, or no plot when anything in
\* it raised (ax.plot raises when Q_curve and H_curve differ in length)
CurvePlot(curve_Q, curve_H) ==
  LET Q_curve == ParseCurve(curve_Q)
      H_curve == ParseCurve(curve_H)
  IN  IF ~Q_curve.ok \/ ~H_curve.ok THEN NoPlot
      ELSE IF Len(Q_curve.values) # Len(H_curve.values) THEN NoPlot
      ELSE [shown |-> TRUE, Q |-> Q_curve.values, H |-> H_curve.values]

PumpCurve ==
  /\ pc = "curve"
  /\ LET plot == CurvePlot(sidebar.curve_Q, sidebar.curve_H)
     IN  page' = [page EXCEPT !.plot = plot, !.warning = ~plot.shown]
  /\ pc' = "done"
  /\ UNCHANGED <<sidebar, env, error, runs, mem, conv, props, propsPrev>>

(***************************************************************************)
(* The user.  Changing a widget makes Streamlit run the script again, in a *)
(* fresh namespace and on a fresh page.  The user acts on a finished run.  *)
(***************************************************************************)
\* reruns in one session
MaxRuns == 3

Ended == pc \in {"done", "crashed"}

Rerun(sb) ==
  /\ Ended
  /\ runs < MaxRuns
  /\ sb # sidebar
  /\ sidebar' = sb
  /\ env' = FreshEnv
  /\ page' = FreshPage
  /\ error' = NoError
  /\ pc' = "inputs"
  /\ runs' = runs + 1
  /\ UNCHANGED <<mem, conv, props, propsPrev>>

Fluids == {"Water", "Light Oil", "Seawater"}

Temperatures == {20, 25}

\* -50, 0, 1.14 and 50 of the flow unit.  With Water at 20 C in the default
\* pipe, 1.14 m3/hr is Re = 4000 at this model's resolution.
Flows == {-50000000, 0, 1140000, 50000000}

\* -0.1, 0 and 0.1 m
Diameters == {-100, 0, 100}

PowerUnits == {"kW", "HP"}

TempUnits == {"°C", "°F"}

FlowUnits == {"m3/hr", "GPM"}

LenUnits == {"m", "ft"}

CurveQs ==
  {DefaultCurveQ,
   <<>>,
   <<"1", "0", ",", "a", "b", "c">>,
   <<"5", "0">>,
   <<"7", "0", ",", "1", "0", ",", "5", "0", ",", "3", "0">>}

CurveHs == {DefaultCurveH, <<"4", "0">>}

EditFluid == \E x \in Fluids : Rerun([sidebar EXCEPT !.fluid = x])

EditTemperature ==
  \E x \in Temperatures : Rerun([sidebar EXCEPT !.temperature_input = x])

EditFlow == \E x \in Flows : Rerun([sidebar EXCEPT !.flow_input = x])

EditDiameter == \E x \in Diameters : Rerun([sidebar EXCEPT !.diam_input = x])

EditTempUnit == \E x \in TempUnits : Rerun([sidebar EXCEPT !.temp_unit = x])

EditFlowUnit == \E x \in FlowUnits : Rerun([sidebar EXCEPT !.flow_unit = x])

EditLenUnit == \E x \in LenUnits : Rerun([sidebar EXCEPT !.len_unit = x])

EditPowerUnit == \E x \in PowerUnits : Rerun([sidebar EXCEPT !.power_unit = x])

EditCurveQ == \E x \in CurveQs : Rerun([sidebar EXCEPT !.curve_Q = x])

EditCurveH == \E x \in CurveHs : Rerun([sidebar EXCEPT !.curve_H = x])

\* history: the finished run is kept, to be compared with later ones
Remember ==
  /\ Ended
  /\ mem.run # runs
  /\ mem' = [run |-> runs, sidebar |-> sidebar, env |-> env, page |-> page,
             error |-> error]
  /\ UNCHANGED <<sidebar, env, page, error, pc, runs, conv, props, propsPrev>>

Next ==
  \/ ReadInputs
  \/ Calculations
  \/ Display
  \/ PumpCurve
  \/ EditFluid
  \/ EditTemperature
  \/ EditFlow
  \/ EditDiameter
  \/ EditTempUnit
  \/ EditFlowUnit
  \/ EditLenUnit
  \/ EditPowerUnit
  \/ EditCurveQ
  \/ EditCurveH
  \/ Remember

Spec == Init /\ [][Next]_vars

(***************************************************************************)
(* The conversions and the property function called on their own, for the  *)
(* statements about them as functions.                                     *)
(***************************************************************************)
UnitSet(fn) ==
  CASE fn = "flow_to_m3s" -> {"m3/hr", "m3/s", "GPM"}
    [] fn = "length_to_m" -> {"m", "ft", "inch"}
    [] fn = "pressure_to_Pa" -> {"Pa", "kPa", "bar", "psig"}
    [] fn = "temperature_to_C" -> {"°C", "°F"}
    [] fn = "power_from_W" -> {"W", "kW", "HP"}
    [] OTHER -> {}

ProbeTags ==
  {"m3/hr", "m3/s", "GPM", "m", "ft", "inch", "Pa", "kPa", "bar", "psig",
   "°C", "°F", "W", "kW", "HP", "L/s", "mm", "atm", "K", "MW", ""}

ProbeValues == {-40, 0, 212, 1000}

Called(fn, value, tag, result) ==
  /\ conv' = [fn |-> fn, value |-> value, tag |-> tag, result |-> result]
  /\ UNCHANGED <<sidebar, env, page, error, pc, runs, mem, props, propsPrev>>

CallFlowToM3s ==
  \E x \in ProbeValues, u \in ProbeTags :
    Called("flow_to_m3s", x, u, Fin(flow_to_m3s(x, u)))

CallLengthToM ==
  \E x \in ProbeValues, u \in ProbeTags :
    Called("length_to_m", x, u, Fin(length_to_m(x, u)))

CallPressureToPa ==
  \E x \in ProbeValues, u \in ProbeTags :
    Called("pressure_to_Pa", x, u, Fin(pressure_to_Pa(x, u)))

CallTemperatureToC ==
  \E x \in ProbeValues, u \in ProbeTags :
    Called("temperature_to_C", x, u, Fin(temperature_to_C(x, u)))

CallPowerFromW ==
  \E x \in ProbeValues, u \in ProbeTags :
    Called("power_from_W", x, u, power_from_W(Fin(x), u))

NextUnits ==
  \/ CallFlowToM3s
  \/ CallLengthToM
  \/ CallPressureToPa
  \/ CallTemperatureToC
  \/ CallPowerFromW

SpecUnits == Init /\ [][NextUnits]_vars

\* the supported temperature range, in whole degrees
SupportedTemperatures == 0..100

FluidProbes ==
  ({"Water"} \X SupportedTemperatures)
    \cup ({"Light Oil", "Seawater", "Glycol"} \X {20, 25})

CallGetFluidProperties ==
  /\ \E c \in FluidProbes :
       \E fp \in {get_fluid_properties(c[1], c[2])} :
           props' = [fluid |-> c[1], temperature_C |-> c[2],
                     density |-> fp.density, viscosity |-> fp.viscosity,
                     vapor_pressure |-> fp.vapor_pressure]
  /\ propsPrev' = props
  /\ UNCHANGED <<sidebar, env, page, error, pc, runs, mem, conv>>

SpecFluid == Init /\ [][CallGetFluidProperties]_vars

(***************************************************************************)
(* The claims.                                                             *)
(***************************************************************************)

\* C1: a run with flow = 0 (on a pipe of positive diameter) completes
\* without a fault and yields velocity = 0, Re = 0, major loss = 0, minor
\* loss = 0 and TDH = elevation.
ZeroFlowBoundary ==
  (Ended /\ sidebar.flow_input = 0 /\ sidebar.diam_input > 0) =>
    /\ error = NoError
    /\ env.velocity = Fin(0)
    /\ env.Re = Fin(0)
    /\ env.major_loss = Fin(0)
    /\ env.minor_loss = Fin(0)
    /\ env.TDH = env.elevation

\* C2: a conversion called with a unit tag outside its quantity's set fails
\* with InvalidUnit; it never returns a value.
UnknownUnitRejected ==
  (conv.fn # "none" /\ conv.tag \notin UnitSet(conv.fn)) =>
    conv.result.k = "InvalidUnit"

\* C3: a run with diameter <= 0 ends in DegenerateGeometry, one with
\* viscosity <= 0 or density <= 0 in DegenerateFluid, and neither computes
\* or displays a velocity, Reynolds number, friction factor, head or power.
PreconditionsChecked ==
  LET fp == get_fluid_properties(sidebar.fluid, env.temperature.v)
      nothing ==
        /\ \A n \in {"velocity", "Re", "f", "major_loss", "minor_loss", "TDH",
                     "hydraulic_power_W", "shaft_power_W"} : env[n] = Unbound
        /\ page.results = NoResults
  IN  /\ (Ended /\ env.diameter.v <= 0) =>
           (error.k = "DegenerateGeometry" /\ nothing)
      /\ (Ended /\ env.diameter.v > 0
                /\ (fp.density <= 0 \/ fp.viscosity <= 0)) =>
           (error.k = "DegenerateFluid" /\ nothing)

\* C4: no run ends with an uncaught exception.
NoUncaughtException == pc # "crashed" /\ error = NoError

\* C5: the friction factor is the Swamee-Jain value exactly when Re > 4000
\* and 64/Re exactly when Re <= 4000 (Re = 4000 included); an exception
\* raised by either formula comes from the formula of that regime, and
\* once Re is computed one of the two formulas has been evaluated.
FrictionRegime ==
  LET Re == env.Re.v
      vt == get_fluid_properties(sidebar.fluid,
                                 env.temperature.v).viscosity_type
  IN  /\ env.f.k # "unbound" =>
           /\ Re > 4000 =>
                env.f = SwameeJain(Re, sidebar.roughness, env.diameter.v)
           /\ Re <= 4000 => env.f = Laminar(Re, vt, env.diameter.v)
      /\ (pc = "crashed" /\ error.v = 136) => (env.Re.k = "fin" /\ Re > 4000)
      /\ (pc = "crashed" /\ error.v = 138) => (env.Re.k = "fin" /\ Re <= 4000)
      /\ (env.Re.k = "fin" /\ pc \notin {"inputs", "calc"}) =>
           (env.f.k # "unbound" \/ error.v \in {136, 138})

\* C5 witness: a finished run at exactly Re = 4000, with f = 64/4000
FrictionAtThreshold ==
  pc = "done" /\ env.Re = Fin(4000) /\ env.f = Fin(1600)

\* C6: a run that displays results for a non-zero flow input evaluated a
\* flow >= 0 and shows a strictly positive Reynolds number and friction
\* factor.
PositiveReAndF ==
  (pc = "done" /\ sidebar.flow_input # 0 /\ sidebar.diam_input > 0) =>
    /\ env.Q.v >= 0
    /\ env.Re.k = "fin" /\ env.Re.v > 0
    /\ env.f.k = "fin" /\ env.f.v > 0
    /\ page.results.Re.v > 0

\* C7: for Water, density is 1000 kg/m3 at 20 C, strictly positive on
\* [0, 100] C, and strictly decreasing in the temperature there.
WaterDensityLaw ==
  (props.fluid = "Water" /\ props.temperature_C \in SupportedTemperatures) =>
    /\ props.density > 0
    /\ props.temperature_C = 20 => props.density = 10000
    /\ (/\ propsPrev.fluid = "Water"
        /\ propsPrev.temperature_C \in SupportedTemperatures
        /\ propsPrev.temperature_C < props.temperature_C) =>
         propsPrev.density > props.density

\* C7 witness: density(20) read after the density of a colder Water
WaterDensityCompared ==
  /\ props.fluid = "Water" /\ props.temperature_C = 20
  /\ props.density = 10000
  /\ propsPrev.fluid = "Water" /\ propsPrev.temperature_C = 0
  /\ propsPrev.density = 10060

\* C8: a curve that is plotted has at least two points and strictly
\* increasing flow values.
CurveDomainChecked ==
  page.plot.shown =>
    /\ Len(page.plot.Q) >= 2
    /\ \A i \in 1..(Len(page.plot.Q) - 1) : page.plot.Q[i] < page.plot.Q[i + 1]

\* C9: a finished run whose sidebar inputs equal those of a remembered
\* earlier run has the same outcome: the same computed values, the same
\* page, the same exception if any.
RunsIndependent ==
  (Ended /\ mem.run >= 0 /\ mem.sidebar = sidebar) =>
    (mem.env = env /\ mem.page = page /\ mem.error = error)

\* C9 witness: the same inputs again, with a run of other inputs between
SameInputsAgain ==
  /\ Ended /\ mem.run >= 0 /\ mem.run + 2 <= runs
  /\ mem.sidebar = sidebar
  /\ page.results # NoResults

\* the curve text fails to parse or to plot: a token that is no number
\* (the empty field is one), or flow and head lists of different lengths
CurveMalformed(sb) ==
  \/ ~ParseCurve(sb.curve_Q).ok
  \/ ~ParseCurve(sb.curve_H).ok
  \/ Len(ParseCurve(sb.curve_Q).values) # Len(ParseCurve(sb.curve_H).values)

SameButCurves(a, b) ==
  [a EXCEPT !.curve_Q = <<>>, !.curve_H = <<>>]
    = [b EXCEPT !.curve_Q = <<>>, !.curve_H = <<>>]

\* C10: the curve is handled only after the results are on the page; a run
\* that reaches it with malformed curve text shows the warning and no plot,
\* and its displayed results are those of a remembered run with the same
\* other inputs and a plotted curve.
CurveFailureFrame ==
  /\ (page.plot.shown \/ page.warning) => page.results # NoResults
  /\ pc = "curve" => page.results = Displayed(env, sidebar)
  /\ (pc = "done" /\ CurveMalformed(sidebar)) =>
       /\ page.warning /\ ~page.plot.shown
       /\ (/\ mem.run >= 0 /\ mem.page.plot.shown
           /\ SameButCurves(mem.sidebar, sidebar)) =>
            mem.page.results = page.results

\* C10 witness: lists of different lengths, warned about, beside a
\* remembered run of the same other inputs whose curve was plotted
CurveLengthMismatchWarned ==
  /\ pc = "done" /\ page.warning
  /\ ParseCurve(sidebar.curve_Q).ok /\ ParseCurve(sidebar.curve_H).ok
  /\ Len(ParseCurve(sidebar.curve_Q).values)
       # Len(ParseCurve(sidebar.curve_H).values)
  /\ mem.run >= 0 /\ mem.page.plot.shown
  /\ SameButCurves(mem.sidebar, sidebar)
  /\ page.results.TDH.k = "fin"

====
